---- MODULE Spec2Model ----
(***************************************************************************)
(* Route composition and generation-run coordinator of the Canyon Route    *)
(* Editor (src/renderer/src/App.tsx).                                      *)
(*                                                                         *)
(* The state is the React state and refs of App that the route engine      *)
(* reads and writes: routePoints, routeFeature, statusText, mapboxToken,   *)
(* routedSegmentCacheRef, routeAbortControllerRef, and one record per      *)
(* generateRoute call that has not returned yet.  A handler, the commit    *)
(* of its state update and the effects keyed on the changed state run as   *)
(* one action; a generateRoute call runs from one network wait to the      *)
(* next as one action (JavaScript runs to completion between awaits on     *)
(* the network).                                                           *)
(*                                                                         *)
(* Abstractions: coordinates are points of a small integer grid; the       *)
(* great-circle distance, the terrain elevations and the tile of a         *)
(* coordinate are fixed tables over that grid; durations are integer       *)
(* seconds (the table values keep the duration formula exact).  The        *)
(* mapbox token is an input of the engine: it is the value of the          *)
(* mapboxToken state that generateRoute closes over and that the cache     *)
(* effect is keyed on.  resolveToken, its only writer in App, never stores *)
(* an empty value; the engine reacts to every change of the value, and     *)
(* the model lets it change to any non-empty value at any time, before or  *)
(* after points exist.                                                     *)
(* The Directions service answers a pair of coordinates with one fixed     *)
(* route, or fails; the ways it can fail (HTTP status, no route in the     *)
(* body) reach the same catch block and are one failure here.              *)
(*                                                                         *)
(* Initial states: the editor after its first render, with any normalized  *)
(* waypoint list of up to MaxPoints points (a restored or imported list)   *)
(* and the token absent or present; the route-points effect has run once   *)
(* on that list.  MaxCalls bounds the generateRoute calls that get past    *)
(* the early return, MaxRuns the calls in flight at once.                  *)
(*                                                                         *)
(* Saving: onSaveGeoJSON hands the published route to the main process,    *)
(* whose route:save-geojson handler shows a save dialog that is modal to   *)
(* the window and writes the file unless the dialog is cancelled.          *)
(* saveDialog is the dialog and the payload it holds, savedGeoJSON what    *)
(* the last save request that ended wrote.  The payload is the parsed      *)
(* form of the JSON text that crosses the IPC boundary.  The engine reads  *)
(* neither variable; Next leaves saving out and NextSaving puts it beside  *)
(* the engine for a list that only onClear changes.                        *)
(*                                                                         *)
(* Elevation display: the effect keyed on [mapboxToken, routeFeature]      *)
(* resets the displayed start and end elevations, cancels the lookup of the*)
(* previous route and starts one for the published route; it is part of    *)
(* every action that publishes or clears a route or changes the token.     *)
(* The answers of the terrain server to these lookups are steps of         *)
(* NextElevations only: nothing the engine reads depends on them, and      *)
(* without them a lookup is cancelled while its fetch is pending and leaves*)
(* no trace.  A displayed value carries the route its lookup was started   *)
(* for (the field `of`).                                                   *)
(*                                                                         *)
(* Numeric functions: the duration formula, the terrain pixel decoding and *)
(* the tile projection are checked under SpecFunctions, which applies each *)
(* once to arguments drawn from bounded sets.  Angles are in quarter       *)
(* degrees, decoded elevations in tenths of a metre; the Mercator row of a *)
(* latitude is a table of the values the source computes in IEEE doubles.  *)
(*                                                                         *)
(* History fields, read by the properties only: ended (how the last call   *)
(* that reported ended), calls, the via and credential fields of a         *)
(* segment summary and the token field of a cache entry (the credential    *)
(* the entry was fetched with).                                            *)
(***************************************************************************)
EXTENDS Integers, Sequences, FiniteSets, TLC

\* ---------------------------------------------------------------- bounds
MaxPoints == 3
MaxRuns == 2
MaxCalls == 2
CacheCapacityBound == 2

\* ------------------------------------------------------------- constants
Coordinates == {<<0, 0>>, <<1, 0>>}
RoadCoordinate == <<0, 1>>
Tokens == {"tokenA", "tokenB"}
SegmentModes == {"route", "straight"}
PointIds == 1..MaxPoints

\* The cache capacity of the source is 400; the model keeps the smaller of
\* it and CacheCapacityBound so that an overflow is reachable.
MAX_ROUTED_SEGMENT_CACHE_ENTRIES ==
  IF 400 < CacheCapacityBound THEN 400 ELSE CacheCapacityBound

MissingTokenError == "Missing Mapbox token for routed segment."
DirectionsHttpError == "Directions API request failed (500)."
CompositionError == "Route geometry could not be generated."

NoRun == [pc |-> "none"]
NoRoute == [type |-> "none"]
NoController == 0
NoDialog == [open |-> FALSE]
NoFile == [written |-> FALSE]
NoElevations == [known |-> FALSE]
NoElevationError == [message |-> ""]
NoEvaluation == [fn |-> "none"]

VARIABLES
  routePoints,              \* useState<RoutePoint[]>
  routeFeature,             \* useState<RouteFeature | null>
  statusText,               \* useState<string>, as [kind, detail]
  mapboxToken,              \* useState<string>
  routedSegmentCache,       \* routedSegmentCacheRef.current
  routeAbortControllerRef,  \* slot of the controller held by the ref, or NoController
  runs,                     \* generateRoute calls that have not returned
  ended,                    \* history: how the last generateRoute call that reported ended
  calls,                    \* history: generateRoute calls that got past the early return
  saveDialog,               \* the save request the main process holds while its dialog is open
  savedGeoJSON,             \* what the last save request that ended wrote to disk
  routeElevations,          \* useState<RouteElevations | null>, with the route they are of
  routeElevationError,      \* useState<string>, with the route it is of
  elevationLookups,         \* resolveRouteElevations calls that have not returned
  evaluation                \* a pure function under evaluation: its arguments and result

vars == <<routePoints, routeFeature, statusText, mapboxToken, routedSegmentCache,
          routeAbortControllerRef, runs, ended, calls, saveDialog, savedGeoJSON,
          routeElevations, routeElevationError, elevationLookups, evaluation>>

\* The state of the elevation display.
elevationVars == <<routeElevations, routeElevationError, elevationLookups>>

\* --------------------------------------------------------- pure helpers
Max(a, b) == IF a > b THEN a ELSE b
Min(a, b) == IF a < b THEN a ELSE b

isSameCoordinate(a, b) == a[1] = b[1] /\ a[2] = b[2]

\* Variant: appends without the comparison with the last coordinate.
appendCoordinateUnchecked(target, candidate) == Append(target, candidate)

appendCoordinate(target, candidate) ==
  IF Len(target) = 0 \/ ~isSameCoordinate(target[Len(target)], candidate)
  THEN Append(target, candidate)
  ELSE target

RECURSIVE appendCoordinates(_, _)
appendCoordinates(target, candidates) ==
  IF candidates = <<>> THEN target
  ELSE appendCoordinates(appendCoordinate(target, Head(candidates)), Tail(candidates))

\* Great-circle distance in metres, tabulated over the grid by squared
\* grid distance (0, 1 or 2 grid steps).
haversineDistanceMeters(a, b) ==
  LET d2 == (a[1] - b[1]) * (a[1] - b[1]) + (a[2] - b[2]) * (a[2] - b[2])
  IN  CASE d2 = 0 -> 0
        [] d2 = 1 -> 100
        [] OTHER -> 150

\* Variant: the gain is charged at the rate of the drop and the drop at the
\* rate of the gain.
calculateStraightSegmentDurationSecondsSwapped(distanceM, deltaElevationM) ==
  Max(0, (72 * distanceM + 360 * Max(deltaElevationM, 0)
            + 600 * Max(-deltaElevationM, 0)) \div 100)

\* hours = km/5 + gain/600 + drop/1000, in seconds: 0.72 d + 6 gain + 3.6 drop.
calculateStraightSegmentDurationSeconds(distanceM, deltaElevationM) ==
  Max(0, (72 * distanceM + 600 * Max(deltaElevationM, 0)
            + 360 * Max(-deltaElevationM, 0)) \div 100)

TERRAIN_TILE_ZOOM == 14
TERRAIN_TILE_SIZE == 512

\* Angles are in quarter degrees.  MaxMercatorLatitude stands for the
\* clamp of the source, 85.05112878 degrees, which lies between 85 and
\* 85.25 degrees.
DegreeUnit == 4
MaxMercatorLatitude == 341

\* floor(y * TERRAIN_TILE_SIZE) at zoom 14 for y of lines 152-153, as IEEE
\* double arithmetic evaluates it at the clamped latitude.  At the clamp the
\* source's y is -1.02e-7 (north) and 16384.0000001 (south): 85.05112878
\* degrees is beyond the latitude at which the projection is square.
MercatorRow ==
  [clampedLat \in {-341, -340, -180, 0, 180, 193, 340, 341} |->
     CASE clampedLat = -341 -> 8388608
       [] clampedLat = -340 -> 8374868
       [] clampedLat = -180 -> 5371015
       [] clampedLat = 0 -> 4194304
       [] clampedLat = 180 -> 3017592
       [] clampedLat = 193 -> 2907273
       [] clampedLat = 340 -> 13739
       [] OTHER -> -1]

\* projectLngLatToTilePixel at TERRAIN_TILE_ZOOM.  x * TERRAIN_TILE_SIZE is
\* (lng + 180) / 360 * 2^zoom * 512, computed as (lng + 180) * 2^(zoom + 6)
\* / 45 to stay within 32-bit integers; floor((x - tileX) * 512) is
\* floor(x * 512) - 512 * tileX.
projectLngLatToTilePixel(lng, lat, zoom) ==
  LET clampedLat == Max(-MaxMercatorLatitude, Min(MaxMercatorLatitude, lat))
      column == ((lng + 180 * DegreeUnit) * 2^(zoom + 6)) \div (45 * DegreeUnit)
      row == MercatorRow[clampedLat]
      tileX == column \div TERRAIN_TILE_SIZE
      tileY == row \div TERRAIN_TILE_SIZE
  IN  [tileX |-> tileX, tileY |-> tileY,
       pixelX |-> column - tileX * TERRAIN_TILE_SIZE,
       pixelY |-> row - tileY * TERRAIN_TILE_SIZE]

\* The range checks of parseCoordinateInput (lines 204-216).
parseCoordinateInputAccepts(lng, lat) ==
  /\ ~(lng < -180 * DegreeUnit \/ lng > 180 * DegreeUnit)
  /\ ~(lat < -90 * DegreeUnit \/ lat > 90 * DegreeUnit)

\* imageData.data[index] ?? 0, index 0-based.
ImageByte(imageData, index) ==
  IF index + 1 \in 1..Len(imageData.data) THEN imageData.data[index + 1] ELSE 0

\* Variant: the pixel coordinates are used as they come.
decodeTerrainElevationMetersUnclamped(imageData, pixelX, pixelY) ==
  LET index == (pixelY * imageData.width + pixelX) * 4
  IN  -100000 + (ImageByte(imageData, index) * 256 * 256
                   + ImageByte(imageData, index + 1) * 256
                   + ImageByte(imageData, index + 2))

\* decodeTerrainElevationMeters, in tenths of a metre: the unit in which
\* the value of the source, -10000 + n * 0.1, is the integer -100000 + n.
decodeTerrainElevationMeters(imageData, pixelX, pixelY) ==
  LET x == Max(0, Min(imageData.width - 1, pixelX))
      y == Max(0, Min(imageData.height - 1, pixelY))
      index == (y * imageData.width + x) * 4
      r == ImageByte(imageData, index)
      g == ImageByte(imageData, index + 1)
      b == ImageByte(imageData, index + 2)
  IN  -100000 + (r * 256 * 256 + g * 256 + b)

\* Terrain data: the tile a coordinate projects to and the elevation decoded
\* from that tile's raster at the coordinate's pixel.
TerrainTileOf(coordinate) == coordinate[1]
TerrainElevationMeters(coordinate) == 100 + 50 * coordinate[1] + 25 * coordinate[2]
TerrainTiles == {TerrainTileOf(c) : c \in Coordinates}

createRouteSegmentCacheKey(from, to) == <<from, to>>

\* ------------------------------------------------------- waypoint list
normalizeRoutePoints(points) ==
  IF Len(points) = 0 THEN <<>>
  ELSE IF Len(points) = 1
  THEN << [id |-> points[1].id,
           type |-> IF points[1].type = "end" THEN "end" ELSE "start",
           coordinates |-> points[1].coordinates,
           segmentMode |-> "undefined"] >>
  ELSE [index \in 1..Len(points) |->
          IF index = 1
          THEN [id |-> points[index].id, type |-> "start",
                coordinates |-> points[index].coordinates, segmentMode |-> "undefined"]
          ELSE [id |-> points[index].id,
                type |-> IF index = Len(points) THEN "end" ELSE "waypoint",
                coordinates |-> points[index].coordinates,
                segmentMode |-> IF points[index].segmentMode = "undefined"
                                THEN "straight" ELSE points[index].segmentMode]]

\* Variant: two lists never compare equal.
areRoutePointsEqualNever(a, b) == FALSE

areRoutePointsEqual(a, b) ==
  /\ Len(a) = Len(b)
  /\ \A index \in 1..Len(a) :
       /\ a[index].id = b[index].id
       /\ a[index].type = b[index].type
       /\ a[index].segmentMode = b[index].segmentMode
       /\ isSameCoordinate(a[index].coordinates, b[index].coordinates)

\* createRoutePointId: an id no point of the list carries.
createRoutePointId(points) ==
  CHOOSE id \in PointIds :
    /\ \A index \in 1..Len(points) : points[index].id # id
    /\ \A other \in PointIds :
         (\A index \in 1..Len(points) : points[index].id # other) => id <= other

\* Variant: an inserted point always starts with a straight segment.
getInsertedPointSegmentModeStraight(points, insertionIndex) == "straight"

\* points (1-based), insertionIndex as in the source (0-based position).
getInsertedPointSegmentMode(points, insertionIndex) ==
  LET modeAt(position) ==  \* points[position]?.segmentMode ?? "straight", 0-based
        IF position + 1 \in 1..Len(points) /\ points[position + 1].segmentMode # "undefined"
        THEN points[position + 1].segmentMode
        ELSE "straight"
  IN  IF Len(points) < 2 THEN "straight"
      ELSE IF insertionIndex <= 0 THEN modeAt(1)
      ELSE IF insertionIndex >= Len(points) THEN modeAt(Len(points) - 1)
      ELSE modeAt(insertionIndex)

SpliceIn(points, position, point) ==  \* next.splice(position, 0, point), 0-based
  SubSeq(points, 1, position) \o <<point>> \o SubSeq(points, position + 1, Len(points))

RemoveAt(points, index) ==  \* 1-based
  SubSeq(points, 1, index - 1) \o SubSeq(points, index + 1, Len(points))

arrayMove(points, oldIndex, newIndex) ==  \* 1-based indexes
  LET moved == points[oldIndex]
      rest == RemoveAt(points, oldIndex)
  IN  SubSeq(rest, 1, newIndex - 1) \o <<moved>> \o SubSeq(rest, newIndex, Len(rest))

IndexOfId(points, id) ==  \* findIndex, 0 when absent
  IF \E index \in 1..Len(points) : points[index].id = id
  THEN CHOOSE index \in 1..Len(points) : points[index].id = id
  ELSE 0

\* ------------------------------------------------- generation run (engine)
\* The first route of a successful Directions response for (from, to), fixed
\* data of the service: eastbound and zero-length requests are answered with
\* a route between the endpoints, westbound ones with a route snapped to the
\* road network that repeats a vertex and ends off the requested endpoint.
DirectionsRoute(from, to) ==
  IF from[1] > to[1]
  THEN [distance |-> 225, duration |-> 180,
        coordinates |-> <<from, from, RoadCoordinate>>]
  ELSE [distance |-> haversineDistanceMeters(from, to) + 50, duration |-> 90,
        coordinates |-> <<from, to>>]

DirectionsFailures == {DirectionsHttpError}

NewRun(points, token) ==
  [pc |-> "start",
   points |-> points,
   token |-> token,
   aborted |-> FALSE,
   index |-> 1,
   fullCoordinates |-> appendCoordinate(<<>>, points[1].coordinates),
   segments |-> <<>>,
   segmentErrors |-> <<>>,
   totalDistanceM |-> 0,
   totalDurationS |-> 0,
   terrainTileCache |-> [tile \in TerrainTiles |-> "none"],
   err |-> ""]

previousPointOf(run) == run.points[run.index]
currentPointOf(run) == run.points[run.index + 1]

\* Variant: every lookup of a tile sends a request of its own.
loadTerrainTileImageDataUncached(run, tile) ==
  [run EXCEPT !.terrainTileCache[tile] =
     IF run.token = "" \/ run.aborted THEN "fail" ELSE "pending"]

\* loadTerrainTileImageData for the tiles of both endpoints: a tile already in
\* the run's cache shares its promise; otherwise the promise rejects at once
\* without a token or with an aborted signal, or a request goes out.
loadTerrainTileImageData(run, tile) ==
  IF run.terrainTileCache[tile] # "none" THEN run
  ELSE [run EXCEPT !.terrainTileCache[tile] =
          IF run.token = "" \/ run.aborted THEN "fail" ELSE "pending"]

getCoordinateElevationMeters(run, from, to) ==
  loadTerrainTileImageData(loadTerrainTileImageData(run, TerrainTileOf(from)),
                           TerrainTileOf(to))

\* Variant: a straight segment whose elevation lookup failed is marked
\* failed and adds a warning.
PushStraightSegmentWarned(run, straightDurationS) ==
  LET from == previousPointOf(run).coordinates
      to == currentPointOf(run).coordinates
      straightDistanceM == haversineDistanceMeters(from, to)
      lookupFailed == \/ run.terrainTileCache[TerrainTileOf(from)] = "fail"
                      \/ run.terrainTileCache[TerrainTileOf(to)] = "fail"
      error == IF lookupFailed THEN "Terrain request failed (500)." ELSE ""
  IN  [run EXCEPT
         !.fullCoordinates = appendCoordinates(run.fullCoordinates, <<from, to>>),
         !.totalDistanceM = run.totalDistanceM + straightDistanceM,
         !.totalDurationS = run.totalDurationS + straightDurationS,
         !.segments = Append(run.segments,
            [index |-> run.index, from |-> from, to |-> to, mode |-> "straight",
             distance_m |-> straightDistanceM, duration_s |-> straightDurationS,
             failed |-> lookupFailed, error |-> error, via |-> "straight",
             credential |-> ""]),
         !.segmentErrors = IF lookupFailed
                           THEN Append(run.segmentErrors, <<run.index, error>>)
                           ELSE run.segmentErrors,
         !.index = run.index + 1]

\* Lines 717-740: the summary of a straight segment.
PushStraightSegment(run, straightDurationS) ==
  LET from == previousPointOf(run).coordinates
      to == currentPointOf(run).coordinates
      straightDistanceM == haversineDistanceMeters(from, to)
  IN  [run EXCEPT
         !.fullCoordinates = appendCoordinates(run.fullCoordinates, <<from, to>>),
         !.totalDistanceM = run.totalDistanceM + straightDistanceM,
         !.totalDurationS = run.totalDurationS + straightDurationS,
         !.segments = Append(run.segments,
            [index |-> run.index, from |-> from, to |-> to, mode |-> "straight",
             distance_m |-> straightDistanceM, duration_s |-> straightDurationS,
             failed |-> FALSE, error |-> "", via |-> "straight", credential |-> ""]),
         !.index = run.index + 1]

\* Variant: a fallen-back segment is summarised as a straight segment.
PushFallbackSegmentAsStraight(run, fallbackDurationS) ==
  LET from == previousPointOf(run).coordinates
      to == currentPointOf(run).coordinates
      fallbackDistanceM == haversineDistanceMeters(from, to)
  IN  [run EXCEPT
         !.fullCoordinates = appendCoordinates(run.fullCoordinates, <<from, to>>),
         !.totalDistanceM = run.totalDistanceM + fallbackDistanceM,
         !.totalDurationS = run.totalDurationS + fallbackDurationS,
         !.segments = Append(run.segments,
            [index |-> run.index, from |-> from, to |-> to, mode |-> "straight",
             distance_m |-> fallbackDistanceM, duration_s |-> fallbackDurationS,
             failed |-> TRUE, error |-> run.err, via |-> "fallback", credential |-> ""]),
         !.segmentErrors = Append(run.segmentErrors, <<run.index, run.err>>),
         !.err = "",
         !.index = run.index + 1]

\* Variant: the fallback summary is not marked as failed.
PushFallbackSegmentUnmarked(run, fallbackDurationS) ==
  LET from == previousPointOf(run).coordinates
      to == currentPointOf(run).coordinates
      fallbackDistanceM == haversineDistanceMeters(from, to)
  IN  [run EXCEPT
         !.fullCoordinates = appendCoordinates(run.fullCoordinates, <<from, to>>),
         !.totalDistanceM = run.totalDistanceM + fallbackDistanceM,
         !.totalDurationS = run.totalDurationS + fallbackDurationS,
         !.segments = Append(run.segments,
            [index |-> run.index, from |-> from, to |-> to, mode |-> "route",
             distance_m |-> fallbackDistanceM, duration_s |-> fallbackDurationS,
             failed |-> FALSE, error |-> "", via |-> "fallback", credential |-> ""]),
         !.err = "",
         !.index = run.index + 1]

\* Lines 811-835: the fallback of a routed segment whose resolution threw.
PushFallbackSegment(run, fallbackDurationS) ==
  LET from == previousPointOf(run).coordinates
      to == currentPointOf(run).coordinates
      fallbackDistanceM == haversineDistanceMeters(from, to)
  IN  [run EXCEPT
         !.fullCoordinates = appendCoordinates(run.fullCoordinates, <<from, to>>),
         !.totalDistanceM = run.totalDistanceM + fallbackDistanceM,
         !.totalDurationS = run.totalDurationS + fallbackDurationS,
         !.segments = Append(run.segments,
            [index |-> run.index, from |-> from, to |-> to, mode |-> "route",
             distance_m |-> fallbackDistanceM, duration_s |-> fallbackDurationS,
             failed |-> TRUE, error |-> run.err, via |-> "fallback", credential |-> ""]),
         !.segmentErrors = Append(run.segmentErrors, <<run.index, run.err>>),
         !.err = "",
         !.index = run.index + 1]

\* Variant: the duration of a routed segment is left out of the total.
PushRoutedSegmentUncounted(run, segment, via) ==
  LET from == previousPointOf(run).coordinates
      to == currentPointOf(run).coordinates
  IN  [run EXCEPT
         !.fullCoordinates = appendCoordinates(run.fullCoordinates, segment.coordinates),
         !.totalDistanceM = run.totalDistanceM + segment.distance,
         !.segments = Append(run.segments,
            [index |-> run.index, from |-> from, to |-> to, mode |-> "route",
             distance_m |-> segment.distance, duration_s |-> segment.duration,
             failed |-> FALSE, error |-> "", via |-> via,
             credential |-> segment.token]),
         !.index = run.index + 1]

\* Lines 752-766 and 793-805: the summary of a routed segment, from the cache
\* entry or from the response just received.  `via` and `credential` are
\* history fields: where the values came from and the token they were
\* fetched under.
PushRoutedSegment(run, segment, via) ==
  LET from == previousPointOf(run).coordinates
      to == currentPointOf(run).coordinates
  IN  [run EXCEPT
         !.fullCoordinates = appendCoordinates(run.fullCoordinates, segment.coordinates),
         !.totalDistanceM = run.totalDistanceM + segment.distance,
         !.totalDurationS = run.totalDurationS + segment.duration,
         !.segments = Append(run.segments,
            [index |-> run.index, from |-> from, to |-> to, mode |-> "route",
             distance_m |-> segment.distance, duration_s |-> segment.duration,
             failed |-> FALSE, error |-> "", via |-> via,
             credential |-> segment.token]),
         !.index = run.index + 1]

\* Variant: a routed segment is requested whatever the token.
RoutedSegmentNeverNeedsToken(run) == FALSE

\* The missing-token guard of a routed segment (lines 743-745).
RoutedSegmentNeedsToken(run) == run.token = ""

\* Variant: the lookup never finds an entry.
CachedSegmentNeverFound(cache, cacheKey) == FALSE

\* The cache lookup of a routed segment (lines 751-752).
CachedSegmentFound(cache, cacheKey) == cacheKey \in DOMAIN cache

RECURSIVE RunSegments(_, _)

\* getStraightSegmentDurationSeconds once both lookups are registered:
\* Promise.all rejects with the first rejected lookup (flat estimate),
\* resolves when both resolved, and otherwise the run waits.
getStraightSegmentDurationSeconds(run, cache) ==
  LET from == previousPointOf(run).coordinates
      to == currentPointOf(run).coordinates
      distanceM == haversineDistanceMeters(from, to)
      fromTile == run.terrainTileCache[TerrainTileOf(from)]
      toTile == run.terrainTileCache[TerrainTileOf(to)]
      push(durationS) == IF run.err = "" THEN PushStraightSegment(run, durationS)
                         ELSE PushFallbackSegment(run, durationS)
  IN  IF fromTile = "fail" \/ toTile = "fail"
      THEN RunSegments(push(calculateStraightSegmentDurationSeconds(distanceM, 0)), cache)
      ELSE IF fromTile = "ok" /\ toTile = "ok"
      THEN RunSegments(push(calculateStraightSegmentDurationSeconds(distanceM,
             TerrainElevationMeters(to) - TerrainElevationMeters(from))), cache)
      ELSE [run EXCEPT !.pc = "elev"]

\* The segment loop of generateRoute (lines 712-837), run until the call
\* waits for the network ("elev", "fetch"), leaves the loop ("compose") or
\* returns from the catch of a cancelled request ("returned").
RunSegments(run, cache) ==
  IF run.index >= Len(run.points) THEN [run EXCEPT !.pc = "compose"]
  ELSE
    LET from == previousPointOf(run).coordinates
        to == currentPointOf(run).coordinates
        mode == IF currentPointOf(run).segmentMode = "undefined" THEN "straight"
                ELSE currentPointOf(run).segmentMode
        cacheKey == createRouteSegmentCacheKey(from, to)
    IN  IF mode = "straight"
        THEN getStraightSegmentDurationSeconds(
               getCoordinateElevationMeters([run EXCEPT !.err = ""], from, to), cache)
        ELSE IF RoutedSegmentNeedsToken(run) /\ run.aborted
        THEN [run EXCEPT !.pc = "returned"]
        ELSE IF RoutedSegmentNeedsToken(run)
        THEN getStraightSegmentDurationSeconds(
               getCoordinateElevationMeters([run EXCEPT !.err = MissingTokenError], from, to),
               cache)
        ELSE IF CachedSegmentFound(cache, cacheKey)
        THEN RunSegments(PushRoutedSegment(run, cache[cacheKey], "cache"), cache)
        ELSE IF run.aborted
        THEN [run EXCEPT !.pc = "returned"]
        ELSE [run EXCEPT !.pc = "fetch"]

\* Variant: a full cache drops one entry instead of all of them.
CacheInsertEvictingOne(cache, cacheKey, entry) ==
  LET full == Cardinality(DOMAIN cache) >= MAX_ROUTED_SEGMENT_CACHE_ENTRIES
      evicted == IF full THEN {CHOOSE key \in DOMAIN cache : TRUE} ELSE {}
  IN  [key \in ((DOMAIN cache) \ evicted) \cup {cacheKey} |->
         IF key = cacheKey THEN entry ELSE cache[key]]

\* Lines 785-792: the write of a fetched segment into the shared cache.
CacheInsert(cache, cacheKey, entry) ==
  LET kept == IF Cardinality(DOMAIN cache) >= MAX_ROUTED_SEGMENT_CACHE_ENTRIES
              THEN <<>> ELSE cache
  IN  [key \in (DOMAIN kept) \cup {cacheKey} |->
         IF key = cacheKey THEN entry ELSE kept[key]]

\* Variant: abort() leaves the signal of the call untriggered.
AbortRunUntriggered(run, bodyRead) == run

\* controller.abort() on a call that has not returned: a pending terrain
\* request rejects; a pending Directions request rejects unless its body was
\* already read to the end (bodyRead), in which case the resolution queued
\* for response.json() still arrives.
AbortRun(run, bodyRead) ==
  IF run.pc = "none" THEN run
  ELSE [run EXCEPT
          !.aborted = TRUE,
          !.terrainTileCache = [tile \in TerrainTiles |->
             IF run.terrainTileCache[tile] = "pending" THEN "fail"
             ELSE run.terrainTileCache[tile]],
          !.pc = IF run.pc = "fetch" /\ ~run.aborted /\ ~bodyRead THEN "rejected"
                 ELSE run.pc]

\* Variant: a call publishes whether or not it was cancelled.
PublishAlways(run) == TRUE

\* Lines 865-867 and 876-878: a cancelled call returns without publishing.
PublishAllowed(run) == ~run.aborted

\* Variant: a failed segment fails the composition as well.
CompositionFailsOnSegmentFailure(run) ==
  \/ Len(run.fullCoordinates) < 2
  \/ \E i \in 1..Len(run.segments) : run.segments[i].failed

\* Line 839: the composed polyline is too short to be a route.
CompositionFails(run) == Len(run.fullCoordinates) < 2

\* Variant: the feature leaves out the interior waypoints.
RouteFeatureOfWithoutWaypoints(run) ==
  [type |-> "Feature",
   coordinates |-> run.fullCoordinates,
   distance_m |-> run.totalDistanceM,
   duration_s |-> run.totalDurationS,
   start |-> run.points[1].coordinates,
   end |-> run.points[Len(run.points)].coordinates,
   waypoints |-> <<>>,
   segments |-> run.segments]

\* Lines 843-863: the feature a call that left the loop builds.
RouteFeatureOf(run) ==
  [type |-> "Feature",
   coordinates |-> run.fullCoordinates,
   distance_m |-> run.totalDistanceM,
   duration_s |-> run.totalDurationS,
   start |-> run.points[1].coordinates,
   end |-> run.points[Len(run.points)].coordinates,
   waypoints |-> [i \in 1..(Len(run.points) - 2) |-> run.points[i + 1].coordinates],
   segments |-> run.segments]

\* Variant: a published route is always announced as plain success.
RouteReadyStatusPlain(run) == [kind |-> "Route ready.", detail |-> <<>>]

\* Lines 869-874: the status a published route is announced with.
RouteReadyStatus(run) ==
  IF Len(run.segmentErrors) > 0
  THEN [kind |-> "Route ready with warnings", detail |-> run.segmentErrors]
  ELSE [kind |-> "Route ready.", detail |-> <<>>]

Status(kind) == [kind |-> kind, detail |-> <<>>]

\* The feedback text a handler sets; the texts of the handlers are not told apart.
HandlerStatus(text) == [kind |-> "handler", detail |-> <<>>]

\* ----------------------------------------------------------- coordinator
\* The part of the state a generateRoute call reads and writes, threaded
\* through the steps of one action.
World ==
  [runs |-> runs, ref |-> routeAbortControllerRef, feature |-> routeFeature,
   status |-> statusText, ended |-> ended,
   calls |-> calls, token |-> mapboxToken, published |-> FALSE,
   routeElevations |-> routeElevations, routeElevationError |-> routeElevationError]

\* abortController.abort() in the cleanup of the elevation effect (lines
\* 1120-1122): the pending fetch of a lookup rejects and the lookup returns
\* through its catch block; a lookup that only waits for createImageBitmap
\* goes on, cancelled.
AbortLookups(lookups) ==
  { [lookup EXCEPT !.aborted = TRUE] :
      lookup \in { l \in lookups : \A tile \in TerrainTiles : l.tiles[tile] # "fetch" } }

\* resolveRouteElevations() up to its wait (lines 1040-1097): a fetch for
\* the tile of the start and for the tile of the end, one if they share it.
NewLookup(feature) ==
  [of |-> feature, aborted |-> FALSE,
   tiles |-> [tile \in TerrainTiles |->
                IF tile \in {TerrainTileOf(feature.start), TerrainTileOf(feature.end)}
                THEN "fetch" ELSE "none"]]

\* The effect keyed on [mapboxToken, routeFeature] (lines 1033-1123) runs
\* when a route was published, the route was cleared or the token changed.
RouteElevationsEffectRuns(w) ==
  \/ w.published
  \/ w.feature # routeFeature
  \/ w.token # mapboxToken

Commit(w) ==
  /\ runs' = w.runs
  /\ routeAbortControllerRef' = w.ref
  /\ routeFeature' = w.feature
  /\ statusText' = w.status
  /\ ended' = w.ended
  /\ calls' = w.calls
  /\ IF RouteElevationsEffectRuns(w)
     THEN /\ routeElevations' = NoElevations
          /\ routeElevationError' = NoElevationError
          /\ elevationLookups' =
               AbortLookups(elevationLookups)
               \cup (IF w.feature = NoRoute THEN {}
                     ELSE IF w.token = "" THEN {}
                     ELSE {NewLookup(w.feature)})
     ELSE /\ routeElevations' = w.routeElevations
          /\ routeElevationError' = w.routeElevationError
          /\ elevationLookups' = elevationLookups

EndedRecord(run, outcome, current) ==
  [outcome |-> outcome,
   aborted |-> run.aborted,
   current |-> current,
   short |-> Len(run.fullCoordinates) < 2,
   segmentFailed |-> \E i \in 1..Len(run.segments) : run.segments[i].failed,
   staleCache |-> \E i \in 1..Len(run.segments) :
                    /\ run.segments[i].via = "cache"
                    /\ run.segments[i].credential # run.token]

\* The call in slot r has reached `run`: it waits for the network, or it
\* leaves generateRoute through the tail of the try, the outer catch and the
\* finally (lines 839-886).  A call that returns without reporting leaves
\* no trace.
Settle(w, r, run) ==
  IF run.pc \in {"elev", "fetch"}
  THEN [w EXCEPT !.runs[r] = run]
  ELSE LET fails == IF run.pc = "threw" THEN TRUE
                    ELSE IF run.pc = "compose" THEN CompositionFails(run) ELSE FALSE
           silent == IF run.pc = "returned" THEN TRUE ELSE ~PublishAllowed(run)
           w1 == [w EXCEPT !.runs[r] = NoRun,
                           !.ref = IF w.ref = r THEN NoController ELSE w.ref]
       IN  IF silent THEN w1
           ELSE IF fails
           THEN [w1 EXCEPT
                   !.feature = NoRoute,
                   !.status = [kind |-> "Failed to generate route",
                               detail |-> <<IF run.pc = "threw" THEN run.err
                                            ELSE CompositionError>>],
                   !.ended = EndedRecord(run, "Failed", w.ref = r)]
           ELSE [w1 EXCEPT
                   !.feature = RouteFeatureOf(run),
                   !.published = TRUE,
                   !.status = RouteReadyStatus(run),
                   !.ended = EndedRecord(run, "Completed", w.ref = r)]

\* Variant: a cancelled call is not resumed by the rejection of its wait.
ResumeCancelledNever(cancelled, cache) ==
  IF cancelled.pc = "rejected" THEN [cancelled EXCEPT !.pc = "returned"]
  ELSE cancelled

\* A cancelled call resumes in the microtasks that follow the abort: the
\* rejection of its pending wait is delivered; only a call whose Directions
\* body was already read goes on waiting.
ResumeCancelled(cancelled, cache) ==
  IF cancelled.pc = "rejected" THEN [cancelled EXCEPT !.pc = "returned"]
  ELSE IF cancelled.pc = "elev" THEN getStraightSegmentDurationSeconds(cancelled, cache)
  ELSE cancelled

\* Variant: the call the ref holds is not cancelled.
abortSkipped(w, cache, bodyRead) == w

\* routeAbortControllerRef.current?.abort(): the call the ref holds is
\* cancelled and the ref no longer holds it.
abort(w, cache, bodyRead) ==
  IF w.ref = NoController THEN w
  ELSE Settle([w EXCEPT !.ref = NoController], w.ref,
              ResumeCancelled(AbortRun(w.runs[w.ref], bodyRead), cache))

FreeSlots(w) == {r \in 1..MaxRuns : w.runs[r].pc = "none"}

FreeSlot(w) == CHOOSE slot \in FreeSlots(w) : \A other \in FreeSlots(w) : slot <= other

InvalidRoutePoints(points) ==
  IF Len(points) < 2 THEN TRUE
  ELSE IF points[1].type # "start" THEN TRUE
  ELSE points[Len(points)].type # "end"

\* Lines 620-623 and the segment loop up to the first wait: the new
\* controller is stored in the ref and the status announces the update.
StartRun(w, r, points, token, cache) ==
  Settle([w EXCEPT !.ref = r, !.status = Status("Updating walking route..."),
                   !.calls = @ + 1],
         r, RunSegments(NewRun(points, token), cache))

AfterAbort(w, points, token, cache) == StartRun(w, FreeSlot(w), points, token, cache)

\* Variant: no call is started while an earlier call is in flight.
generateRouteUnlessBusy(w, points, token, cache, bodyRead) ==
  IF InvalidRoutePoints(points) THEN [w EXCEPT !.feature = NoRoute]
  ELSE IF w.ref # NoController THEN w
  ELSE AfterAbort(abort(w, cache, bodyRead), points, token, cache)

\* generateRoute(points) up to its first wait (lines 612-623 and the loop).
generateRoute(w, points, token, cache, bodyRead) ==
  IF InvalidRoutePoints(points) THEN [w EXCEPT !.feature = NoRoute]
  ELSE AfterAbort(abort(w, cache, bodyRead), points, token, cache)

\* Variant: a short list cancels the call in flight but keeps the route.
RoutePointsEffectKeepingRoute(w, points, token, cache, bodyRead) ==
  IF Len(points) < 2
  THEN abort(w, cache, bodyRead)
  ELSE generateRoute(w, points, token, cache, bodyRead)

\* The effect keyed on [generateRoute, routePoints] (lines 1125-1134).
RoutePointsEffect(w, points, token, cache, bodyRead) ==
  IF Len(points) < 2
  THEN [abort(w, cache, bodyRead) EXCEPT !.feature = NoRoute]
  ELSE generateRoute(w, points, token, cache, bodyRead)

\* The call the effect starts is within the bounds: one more call, and a
\* slot left for it.
EffectEnabled(w, points, cache, bodyRead) ==
  IF InvalidRoutePoints(points) THEN TRUE
  ELSE IF w.calls >= MaxCalls THEN FALSE
  ELSE FreeSlots(abort(w, cache, bodyRead)) # {}

\* setRoutePoints(next) with a new array, and the effects it triggers.
CommitRoutePoints(next, nextStatusText) ==
  /\ routePoints' = next
  /\ \E bodyRead \in BOOLEAN :
       LET w == [World EXCEPT !.status = nextStatusText]
       IN  /\ EffectEnabled(w, next, routedSegmentCache, bodyRead)
           /\ Commit(RoutePointsEffect(w, next, mapboxToken, routedSegmentCache, bodyRead))
  /\ UNCHANGED <<mapboxToken, routedSegmentCache, saveDialog, savedGeoJSON, evaluation>>

\* Variant: the updated list is stored without being normalized.
applyRoutePointUpdateUnnormalized(updated, nextStatusText) ==
  IF areRoutePointsEqual(routePoints, updated)
  THEN /\ statusText' = nextStatusText
       /\ UNCHANGED <<elevationVars, routePoints, routeFeature, mapboxToken, routedSegmentCache,
                      routeAbortControllerRef, runs, ended, calls, saveDialog,
                      savedGeoJSON, evaluation>>
  ELSE CommitRoutePoints(updated, nextStatusText)

applyRoutePointUpdate(updated, nextStatusText) ==
  LET next == normalizeRoutePoints(updated)
  IN  IF areRoutePointsEqual(routePoints, next)
      THEN /\ statusText' = nextStatusText
           /\ UNCHANGED <<elevationVars, routePoints, routeFeature, mapboxToken, routedSegmentCache,
                          routeAbortControllerRef, runs, ended, calls, saveDialog,
                          savedGeoJSON, evaluation>>
      ELSE CommitRoutePoints(next, nextStatusText)

hasStartAndEnd ==
  /\ \E i \in 1..Len(routePoints) : routePoints[i].type = "start"
  /\ \E i \in 1..Len(routePoints) : routePoints[i].type = "end"

\* --------------------------------------------------------------- handlers
setBoundaryPointAtCoordinate(target, coordinate) ==
  /\ ~hasStartAndEnd
  /\ LET current == routePoints
         fresh(type) == [id |-> createRoutePointId(current), type |-> type,
                         coordinates |-> coordinate, segmentMode |-> "undefined"]
         updated ==
           IF target = "start"
           THEN IF Len(current) = 0 THEN <<fresh("start")>>
                ELSE IF Len(current) = 1 /\ current[1].type = "end"
                THEN <<fresh("start"), current[1]>>
                ELSE [current EXCEPT ![1].coordinates = coordinate]
           ELSE IF Len(current) = 0 THEN <<fresh("end")>>
                ELSE IF Len(current) = 1 /\ current[1].type = "start"
                THEN <<current[1], fresh("end")>>
                ELSE IF Len(current) = 1 /\ current[1].type = "end"
                THEN <<[current[1] EXCEPT !.coordinates = coordinate]>>
                ELSE [current EXCEPT ![Len(current)].coordinates = coordinate]
     IN  applyRoutePointUpdate(updated,
           HandlerStatus(IF target = "start" THEN "Start point set." ELSE "End point set."))

insertPointAt(insertionIndex, coordinate) ==
  /\ Len(routePoints) < MaxPoints
  /\ LET safeInsertionIndex == Min(Max(insertionIndex, 0), Len(routePoints))
         hasPrevious == safeInsertionIndex >= 1
         hasNext == safeInsertionIndex + 1 <= Len(routePoints)
         inheritedSegmentMode == getInsertedPointSegmentMode(routePoints, safeInsertionIndex)
         inserted == SpliceIn(routePoints, safeInsertionIndex,
                       [id |-> createRoutePointId(routePoints), type |-> "waypoint",
                        coordinates |-> coordinate, segmentMode |-> inheritedSegmentMode])
         next == IF safeInsertionIndex = 0 /\ Len(inserted) > 1
                 THEN [inserted EXCEPT ![2].segmentMode = inheritedSegmentMode]
                 ELSE inserted
         duplicatesPrevious ==
           IF hasPrevious
           THEN isSameCoordinate(routePoints[safeInsertionIndex].coordinates, coordinate)
           ELSE FALSE
         duplicatesNext ==
           IF hasNext
           THEN isSameCoordinate(routePoints[safeInsertionIndex + 1].coordinates, coordinate)
           ELSE FALSE
     IN  IF duplicatesPrevious \/ duplicatesNext
         THEN /\ statusText' = HandlerStatus("Cannot insert duplicate consecutive points.")
              /\ UNCHANGED <<elevationVars, routePoints, routeFeature, mapboxToken, routedSegmentCache,
                             routeAbortControllerRef, runs, ended, calls, saveDialog,
                             savedGeoJSON, evaluation>>
         ELSE CommitRoutePoints(normalizeRoutePoints(next), HandlerStatus("Point inserted."))

onDeletePoint(id) ==
  IF IndexOfId(routePoints, id) = 0
  THEN /\ statusText' = HandlerStatus("Point no longer exists.")
       /\ UNCHANGED <<elevationVars, routePoints, routeFeature, mapboxToken, routedSegmentCache,
                      routeAbortControllerRef, runs, ended, calls, saveDialog,
                      savedGeoJSON, evaluation>>
  ELSE applyRoutePointUpdate(RemoveAt(routePoints, IndexOfId(routePoints, id)),
                             HandlerStatus("Point deleted."))

onSegmentModeChange(id, mode) ==
  applyRoutePointUpdate(
    [index \in 1..Len(routePoints) |->
       IF index = 1 \/ routePoints[index].id # id THEN routePoints[index]
       ELSE IF (IF routePoints[index].segmentMode = "undefined" THEN "straight"
                ELSE routePoints[index].segmentMode) = mode
       THEN routePoints[index]
       ELSE [routePoints[index] EXCEPT !.segmentMode = mode]],
    HandlerStatus(IF mode = "route" THEN "Segment mode set to along road."
                  ELSE "Segment mode set to straight line."))

\* dragend of the marker of point id (lines 1304-1321).
onMarkerDragEnd(id, coordinate) ==
  /\ IndexOfId(routePoints, id) # 0
  /\ applyRoutePointUpdate(
       [index \in 1..Len(routePoints) |->
          IF routePoints[index].id = id
          THEN [routePoints[index] EXCEPT !.coordinates = coordinate]
          ELSE routePoints[index]],
       HandlerStatus("Point moved."))

onDragEnd(activeId, overId) ==
  /\ activeId # overId
  /\ LET oldIndex == IndexOfId(routePoints, activeId)
         newIndex == IndexOfId(routePoints, overId)
     IN  applyRoutePointUpdate(
           IF oldIndex = 0 \/ newIndex = 0 THEN routePoints
           ELSE arrayMove(routePoints, oldIndex, newIndex),
           HandlerStatus("Points reordered."))

\* onClear, and the route-points effect that follows setRoutePoints([]).
onClear ==
  /\ routePoints' = <<>>
  /\ \E bodyRead \in BOOLEAN :
       Commit([abort(World, routedSegmentCache, bodyRead) EXCEPT
                 !.feature = NoRoute, !.status = HandlerStatus("Cleared."),
                 !.routeElevations = NoElevations,
                 !.routeElevationError = NoElevationError])
  /\ UNCHANGED <<mapboxToken, routedSegmentCache, saveDialog, savedGeoJSON, evaluation>>

\* setMapboxToken(token) and the effects keyed on mapboxToken: the cache is
\* cleared (lines 555-557), generateRoute is a new callback and the
\* route-points effect runs again.
SetMapboxToken(token) ==
  /\ token # mapboxToken
  /\ mapboxToken' = token
  /\ routedSegmentCache' = <<>>
  /\ \E bodyRead \in BOOLEAN :
       /\ EffectEnabled(World, routePoints, <<>>, bodyRead)
       /\ Commit(RoutePointsEffect([World EXCEPT !.token = token], routePoints, token,
                                   <<>>, bodyRead))
  /\ UNCHANGED <<routePoints, saveDialog, savedGeoJSON, evaluation>>

\* ------------------------------------------------------------------- save
\* The payload of a save request: JSON.stringify of a FeatureCollection
\* that holds the route (lines 1548-1557).
FeatureCollectionOf(feature) == [type |-> "FeatureCollection", features |-> <<feature>>]

\* onSaveGeoJSON up to its wait for the main process.  The button is
\* disabled without a route and while a save is in progress (canSave, line
\* 1589); the handler checks the route again.
onSaveGeoJSON ==
  /\ ~saveDialog.open
  /\ IF routeFeature = NoRoute
     THEN /\ statusText' = Status("Generate a route before saving GeoJSON.")
          /\ saveDialog' = saveDialog
     ELSE /\ saveDialog' = [open |-> TRUE, payload |-> FeatureCollectionOf(routeFeature)]
          /\ statusText' = statusText
  /\ UNCHANGED <<elevationVars, routePoints, routeFeature, mapboxToken, routedSegmentCache,
                 routeAbortControllerRef, runs, ended, calls, savedGeoJSON, evaluation>>

SaveResults == {"canceled", "saved", "failed"}

\* Variant: the payload is written whatever the dialog returned.
WrittenByAlways(result, payload) == [written |-> TRUE, content |-> payload]

\* The route:save-geojson handler of the main process after the dialog:
\* a cancelled dialog writes nothing, a failed writeFile leaves no file.
WrittenBy(result, payload) ==
  IF result = "saved" THEN [written |-> TRUE, content |-> payload] ELSE NoFile

\* The save dialog closes and onSaveGeoJSON resumes with the result, or
\* with the error of the main process (lines 1559-1568).
SaveDialogCloses(result) ==
  /\ saveDialog.open
  /\ saveDialog' = NoDialog
  /\ savedGeoJSON' = WrittenBy(result, saveDialog.payload)
  /\ statusText' = Status(CASE result = "canceled" -> "Save canceled."
                            [] result = "saved" -> "Saved GeoJSON to"
                            [] OTHER -> "Failed to save GeoJSON")
  /\ UNCHANGED <<elevationVars, routePoints, routeFeature, mapboxToken, routedSegmentCache,
                 routeAbortControllerRef, runs, ended, calls, evaluation>>

\* ------------------------------------------------------ network responses
\* The entry written for a fetched route (lines 787-791); `token` is a
\* history field: the credential the route was fetched under.
CacheEntry(route, token) ==
  [distance |-> route.distance, duration |-> route.duration,
   coordinates |-> route.coordinates, token |-> token]

\* Lines 785-805 and the rest of the loop, for the entry of the response.
StoreAndContinue(w, r, run, cacheKey, entry, cache1) ==
  Settle(w, r, RunSegments(PushRoutedSegment(run, entry, "service"), cache1))

\* The Directions response of the call in slot r carries a route.
DirectionsResponseOk(r) ==
  /\ runs[r].pc = "fetch"
  /\ \E cacheKey \in {createRouteSegmentCacheKey(previousPointOf(runs[r]).coordinates,
                                                  currentPointOf(runs[r]).coordinates)} :
       \E entry \in {CacheEntry(DirectionsRoute(cacheKey[1], cacheKey[2]), runs[r].token)} :
         \E cache1 \in {CacheInsert(routedSegmentCache, cacheKey, entry)} :
           /\ routedSegmentCache' = cache1
           /\ Commit(StoreAndContinue(World, r, runs[r], cacheKey, entry, cache1))
  /\ UNCHANGED <<routePoints, mapboxToken, saveDialog, savedGeoJSON, evaluation>>

\* The Directions request of the call in slot r failed: transport error,
\* non-success status, no candidate route or empty geometry.
DirectionsResponseFails(r, error) ==
  /\ runs[r].pc = "fetch"
  /\ LET run == runs[r]
         run1 == IF run.aborted THEN [run EXCEPT !.pc = "returned"]
                 ELSE getStraightSegmentDurationSeconds(
                        getCoordinateElevationMeters([run EXCEPT !.err = error],
                          previousPointOf(run).coordinates, currentPointOf(run).coordinates),
                        routedSegmentCache)
     IN  Commit(Settle(World, r, run1))
  /\ UNCHANGED <<routePoints, mapboxToken, routedSegmentCache, saveDialog, savedGeoJSON, evaluation>>

\* The terrain tile request of the call in slot r settles.
TerrainTileResponse(r, tile, ok) ==
  /\ runs[r].pc \in {"elev", "fetch"}
  /\ runs[r].terrainTileCache[tile] = "pending"
  /\ LET run == [runs[r] EXCEPT !.terrainTileCache[tile] = IF ok THEN "ok" ELSE "fail"]
     IN  IF run.pc = "elev"
         THEN Commit(Settle(World, r,
                       getStraightSegmentDurationSeconds(run, routedSegmentCache)))
         ELSE Commit(Settle(World, r, run))
  /\ UNCHANGED <<routePoints, mapboxToken, routedSegmentCache, saveDialog, savedGeoJSON, evaluation>>

\* ------------------------------------------------- elevation lookups
\* Variant: a lookup reports whether or not it was cancelled.
LookupReportsAlways(lookup) == TRUE

\* Lines 1099-1101 and 1109-1111: a cancelled lookup returns without
\* setting the display.
LookupReports(lookup) == ~lookup.aborted

\* Lines 1103-1107: the elevations a lookup that resolved displays.
ResolvedElevations(lookup) ==
  [known |-> TRUE,
   startM |-> TerrainElevationMeters(lookup.of.start),
   endM |-> TerrainElevationMeters(lookup.of.end),
   of |-> lookup.of]

\* Lines 1113-1115: the error a lookup that failed displays.
ElevationUnavailable(lookup) ==
  [message |-> "Elevation unavailable for this route.", of |-> lookup.of]

\* The lookup leaves resolveRouteElevations: Promise.all resolved (every
\* tile decoded) or rejected, and the lookup reports unless cancelled.
LookupReturns(lookup, resolved) ==
  /\ elevationLookups' = elevationLookups \ {lookup}
  /\ IF LookupReports(lookup)
     THEN /\ routeElevations' = IF resolved THEN ResolvedElevations(lookup)
                                ELSE NoElevations
          /\ routeElevationError' = IF resolved THEN NoElevationError
                                    ELSE ElevationUnavailable(lookup)
     ELSE UNCHANGED <<routeElevations, routeElevationError>>

\* A wait of the lookup for a tile ends: the tile is now in stage `settled`,
\* or the request or the decoding failed.
LookupTileSettles(lookup, tile, settled, ok) ==
  LET lookup1 == [lookup EXCEPT !.tiles[tile] = settled]
  IN  /\ IF ~ok THEN LookupReturns(lookup, FALSE)
         ELSE IF \A other \in TerrainTiles : lookup1.tiles[other] \in {"none", "ok"}
         THEN LookupReturns(lookup, TRUE)
         ELSE /\ elevationLookups' = (elevationLookups \ {lookup}) \cup {lookup1}
              /\ UNCHANGED <<routeElevations, routeElevationError>>
      /\ UNCHANGED <<routePoints, routeFeature, statusText, mapboxToken,
                     routedSegmentCache, routeAbortControllerRef, runs, ended, calls,
                     saveDialog, savedGeoJSON, evaluation>>

\* The terrain server answers a tile request of a lookup (lines 1057-1060).
ElevationTileResponse(lookup, tile, ok) ==
  /\ lookup \in elevationLookups
  /\ lookup.tiles[tile] = "fetch"
  /\ LookupTileSettles(lookup, tile, "decode", ok)

\* createImageBitmap and the canvas read of a tile end (lines 1062-1076).
ElevationTileDecoded(lookup, tile, ok) ==
  /\ lookup \in elevationLookups
  /\ lookup.tiles[tile] = "decode"
  /\ LookupTileSettles(lookup, tile, "ok", ok)

\* ---------------------------------------------------------- specification
\* The waypoint lists the handlers can build: any coordinates and segment
\* modes, ids by position, normalized.
RouteLists ==
  UNION { { normalizeRoutePoints(
              [index \in 1..n |->
                 [id |-> index, type |-> boundary, coordinates |-> coordinate[index],
                  segmentMode |-> mode[index]]]) :
              coordinate \in [1..n -> Coordinates], mode \in [1..n -> SegmentModes],
              boundary \in {"start", "end"} } :
          n \in 0..MaxPoints }

\* The state of App after construction.
Constructed ==
  [runs |-> [r \in 1..MaxRuns |-> NoRun], ref |-> NoController, feature |-> NoRoute,
   status |-> Status("Ready"), ended |-> [outcome |-> "None", aborted |-> FALSE,
   current |-> FALSE, short |-> FALSE, segmentFailed |-> FALSE,
   staleCache |-> FALSE], calls |-> 0, token |-> "", published |-> FALSE,
   routeElevations |-> NoElevations, routeElevationError |-> NoElevationError]

\* The state in which the route-points effect has just run for a waypoint
\* list, nothing has been answered by the network yet and the cache is
\* empty: the list was built while every earlier call was still waiting.
Init ==
  \E points \in RouteLists, token \in {"", "tokenA"} :
    LET w == RoutePointsEffect(Constructed, points, token, <<>>, FALSE)
    IN  /\ routePoints = points
        /\ mapboxToken = token
        /\ routedSegmentCache = <<>>
        /\ runs = w.runs
        /\ routeAbortControllerRef = w.ref
        /\ routeFeature = w.feature
        /\ statusText = w.status
        /\ ended = w.ended
        /\ calls = w.calls
        /\ saveDialog = NoDialog
        /\ savedGeoJSON = NoFile
        /\ routeElevations = NoElevations
        /\ routeElevationError = NoElevationError
        /\ elevationLookups = IF w.feature = NoRoute THEN {}
                              ELSE IF token = "" THEN {}
                              ELSE {NewLookup(w.feature)}
        /\ evaluation = NoEvaluation

\* Every step but a successful Directions response.
NextServiceDown ==
  \/ \E target \in {"start", "end"}, coordinate \in Coordinates :
       setBoundaryPointAtCoordinate(target, coordinate)
  \/ \E insertionIndex \in 0..MaxPoints, coordinate \in Coordinates :
       insertPointAt(insertionIndex, coordinate)
  \/ \E id \in PointIds : onDeletePoint(id)
  \/ \E id \in PointIds, mode \in SegmentModes : onSegmentModeChange(id, mode)
  \/ \E id \in PointIds, coordinate \in Coordinates : onMarkerDragEnd(id, coordinate)
  \/ \E activeId \in PointIds, overId \in PointIds : onDragEnd(activeId, overId)
  \/ onClear
  \/ \E token \in Tokens : SetMapboxToken(token)
  \/ \E r \in 1..MaxRuns, error \in DirectionsFailures : DirectionsResponseFails(r, error)
  \/ \E r \in 1..MaxRuns, tile \in TerrainTiles, ok \in BOOLEAN : TerrainTileResponse(r, tile, ok)

Next ==
  \/ NextServiceDown
  \/ \E r \in 1..MaxRuns : DirectionsResponseOk(r)

Spec == Init /\ [][Next]_vars

\* The program with a routing service that fails on every request.
SpecServiceDown == Init /\ [][NextServiceDown]_vars

\* dialog.showSaveDialog(mainWindow, ...) is modal to the window: while it
\* is open the window takes no input, so no handler of the page runs.
WindowAcceptsInput == ~saveDialog.open

\* The steps of a user who saves and clears while the engine resolves the
\* list.  The save operation reads the published route and writes nothing
\* the editor or the engine reads, so it is checked apart from the edits of
\* the list.
NextSaving ==
  \/ /\ WindowAcceptsInput
     /\ \/ onSaveGeoJSON
        \/ onClear
  \/ \E result \in SaveResults : SaveDialogCloses(result)
  \/ \E token \in Tokens : SetMapboxToken(token)
  \/ \E r \in 1..MaxRuns : DirectionsResponseOk(r)
  \/ \E r \in 1..MaxRuns, error \in DirectionsFailures : DirectionsResponseFails(r, error)
  \/ \E r \in 1..MaxRuns, tile \in TerrainTiles, ok \in BOOLEAN : TerrainTileResponse(r, tile, ok)

SpecSaving == Init /\ [][NextSaving]_vars

\* The steps of a user who changes segment modes, moves points and clears
\* while the engine resolves the list and the terrain server answers the
\* lookups of the elevation display.  Next leaves the answers to these
\* lookups out: nothing the engine reads depends on them.
NextElevations ==
  \/ \E id \in PointIds, mode \in SegmentModes : onSegmentModeChange(id, mode)
  \/ \E id \in PointIds, coordinate \in Coordinates : onMarkerDragEnd(id, coordinate)
  \/ onClear
  \/ \E token \in Tokens : SetMapboxToken(token)
  \/ \E r \in 1..MaxRuns : DirectionsResponseOk(r)
  \/ \E r \in 1..MaxRuns, error \in DirectionsFailures : DirectionsResponseFails(r, error)
  \/ \E r \in 1..MaxRuns, tile \in TerrainTiles, ok \in BOOLEAN : TerrainTileResponse(r, tile, ok)
  \/ \E lookup \in elevationLookups, tile \in TerrainTiles, ok \in BOOLEAN :
       ElevationTileResponse(lookup, tile, ok)
  \/ \E lookup \in elevationLookups, tile \in TerrainTiles, ok \in BOOLEAN :
       ElevationTileDecoded(lookup, tile, ok)

SpecElevations == Init /\ [][NextElevations]_vars

\* ------------------------------------------------ the numeric functions
\* Distances in metres and elevation differences in metres at which the
\* duration is a whole number of seconds.
DistancesM == {0, 25, 100, 150, 1000, 5000}
ElevationDeltasM == {-1000, -600, -75, -50, -25, -5, 0, 5, 25, 50, 75, 600, 1000}

\* Rasters of 1 x 1, 2 x 1 and 1 x 2 pixels, RGBA, with every combination
\* of two byte values, and pixel coordinates in and around them.
ImageBytes == {1, 255}
ImageSizes == {<<1, 1>>, <<2, 1>>, <<1, 2>>}
ImageDatas ==
  UNION { { [width |-> size[1], height |-> size[2], data |-> data] :
              data \in [1..(size[1] * size[2] * 4) -> ImageBytes] } :
          size \in ImageSizes }
PixelCoordinates == -1..2

\* Longitudes and latitudes in quarter degrees, within and beyond the
\* ranges the coordinate input accepts.
Longitudes == {-724, -720, -360, -1, 0, 37, 360, 719, 720, 724}
Latitudes == {-364, -360, -341, -340, -180, 0, 180, 193, 340, 341, 360, 364}

EvaluationInputs ==
  { [fn |-> "duration", distanceM |-> d, deltaElevationM |-> e, done |-> FALSE] :
      d \in DistancesM, e \in ElevationDeltasM }
  \cup
  { [fn |-> "decode", imageData |-> i, pixelX |-> x, pixelY |-> y, done |-> FALSE] :
      i \in ImageDatas, x \in PixelCoordinates, y \in PixelCoordinates }
  \cup
  { [fn |-> "project", lng |-> lng, lat |-> lat, done |-> FALSE] :
      lng \in Longitudes, lat \in Latitudes }

\* The editor as constructed, before any point exists, and the arguments
\* of one call of a numeric function.
InitFunctions ==
  /\ routePoints = <<>>
  /\ mapboxToken = ""
  /\ routedSegmentCache = <<>>
  /\ runs = Constructed.runs
  /\ routeAbortControllerRef = Constructed.ref
  /\ routeFeature = Constructed.feature
  /\ statusText = Constructed.status
  /\ ended = Constructed.ended
  /\ calls = Constructed.calls
  /\ saveDialog = NoDialog
  /\ savedGeoJSON = NoFile
  /\ routeElevations = NoElevations
  /\ routeElevationError = NoElevationError
  /\ elevationLookups = {}
  /\ evaluation \in EvaluationInputs

EditorUnchanged ==
  UNCHANGED <<routePoints, routeFeature, statusText, mapboxToken, routedSegmentCache,
              routeAbortControllerRef, runs, ended, calls, saveDialog, savedGeoJSON,
              elevationVars>>

EvaluateDuration ==
  /\ evaluation.fn = "duration"
  /\ ~evaluation.done
  /\ evaluation' = [evaluation EXCEPT
        !.done = TRUE] @@
        [result |-> calculateStraightSegmentDurationSeconds(
                      evaluation.distanceM, evaluation.deltaElevationM)]
  /\ EditorUnchanged

EvaluateDecode ==
  /\ evaluation.fn = "decode"
  /\ ~evaluation.done
  /\ evaluation' = [evaluation EXCEPT
        !.done = TRUE] @@
        [result |-> decodeTerrainElevationMeters(
                      evaluation.imageData, evaluation.pixelX, evaluation.pixelY)]
  /\ EditorUnchanged

EvaluateProjection ==
  /\ evaluation.fn = "project"
  /\ ~evaluation.done
  /\ evaluation' = [evaluation EXCEPT
        !.done = TRUE] @@
        [result |-> projectLngLatToTilePixel(
                      evaluation.lng, evaluation.lat, TERRAIN_TILE_ZOOM)]
  /\ EditorUnchanged

NextFunctions ==
  \/ EvaluateDuration
  \/ EvaluateDecode
  \/ EvaluateProjection

\* The numeric functions of the engine, each applied once to arguments
\* drawn from the sets above.
SpecFunctions == InitFunctions /\ [][NextFunctions]_vars

\* The call in slot r waits for a Directions response, for a terrain tile.
DirectionsPending(r) == runs[r].pc = "fetch"

TerrainPending(r) ==
  /\ runs[r].pc \in {"elev", "fetch"}
  /\ \E tile \in TerrainTiles : runs[r].terrainTileCache[tile] = "pending"

\* Every network request settles (fetch resolves or rejects): weak fairness
\* of the response steps of each call, WF_vars(A) written as
\* []<>~ENABLED <<A>>_vars \/ []<><<A>>_vars with the enabling condition of
\* the step, the pending request, spelled out.
NetworkSettles ==
  \A r \in 1..MaxRuns :
    /\ \/ []<>(~DirectionsPending(r))
       \/ []<><<DirectionsResponseOk(r)
                \/ \E error \in DirectionsFailures : DirectionsResponseFails(r, error)>>_vars
    /\ \/ []<>(~TerrainPending(r))
       \/ []<><<\E tile \in TerrainTiles, ok \in BOOLEAN :
                  TerrainTileResponse(r, tile, ok)>>_vars

\* The program with a network that answers every request.
SpecNetworkSettles == Spec /\ NetworkSettles

\* ------------------------------------------------------------ properties
SegmentsOf(feature) == IF feature = NoRoute THEN <<>> ELSE feature.segments

LiveRuns == {r \in 1..MaxRuns : runs[r].pc # "none"}

FlatDurationS(segment) ==
  calculateStraightSegmentDurationSeconds(
    haversineDistanceMeters(segment.from, segment.to), 0)

TerrainDurationS(segment) ==
  calculateStraightSegmentDurationSeconds(
    haversineDistanceMeters(segment.from, segment.to),
    TerrainElevationMeters(segment.to) - TerrainElevationMeters(segment.from))

\* C1: a call that was superseded never publishes.  The call that last set
\* the route or the status was not cancelled and was the one the ref held;
\* every call still waiting that the ref does not hold is cancelled, and the
\* call the ref holds is the one started for the current list and token.
SupersededRunNeverPublishes ==
  /\ ended.outcome \in {"Completed", "Failed"} => ~ended.aborted /\ ended.current
  /\ \A r \in LiveRuns : r # routeAbortControllerRef => runs[r].aborted
  /\ routeAbortControllerRef # NoController =>
       /\ routeAbortControllerRef \in LiveRuns
       /\ ~runs[routeAbortControllerRef].aborted
       /\ runs[routeAbortControllerRef].points = routePoints
       /\ runs[routeAbortControllerRef].token = mapboxToken

\* A later call has published its route while a superseded call still waits
\* for its Directions response.
SupersededRunStillWaiting ==
  /\ \E r \in LiveRuns : runs[r].aborted /\ runs[r].pc = "fetch"
  /\ routeAbortControllerRef = NoController
  /\ ended.outcome = "Completed"
  /\ routeFeature # NoRoute
  /\ calls = 2

\* C2: under a routing service that fails every request, every routed
\* segment of a published route and of a waiting call is marked failed with
\* a non-empty error, carries the haversine distance and the straight-line
\* duration estimate (terrain-corrected or flat), and a call that reports
\* ends Failed only with a polyline of fewer than 2 points.
FailingServiceFallsBack ==
  /\ ended.outcome = "Failed" => ended.short
  /\ ended.outcome = "Completed" => ~ended.short
  /\ \A segments \in {SegmentsOf(routeFeature)} \cup {runs[r].segments : r \in LiveRuns} :
       \A i \in DOMAIN segments :
         segments[i].mode = "route" =>
           /\ segments[i].failed
           /\ segments[i].error # ""
           /\ segments[i].distance_m =
                haversineDistanceMeters(segments[i].from, segments[i].to)
           /\ segments[i].duration_s \in
                {FlatDurationS(segments[i]), TerrainDurationS(segments[i])}

\* A route is published although the request of a routed segment failed.
FailedSegmentRoutePublished ==
  /\ routeFeature # NoRoute
  /\ ended.outcome = "Completed"
  /\ statusText.kind = "Route ready with warnings"
  /\ \E i \in DOMAIN routeFeature.segments :
       /\ routeFeature.segments[i].mode = "route"
       /\ routeFeature.segments[i].error = DirectionsHttpError

PolylineJoinsStartAndEnd ==
  routeFeature # NoRoute =>
    /\ routeFeature.coordinates[1] = routeFeature.start
    /\ routeFeature.coordinates[Len(routeFeature.coordinates)] = routeFeature.end

\* C5: no two consecutive points of a published polyline are the same
\* coordinate.
NoConsecutiveDuplicates ==
  routeFeature # NoRoute =>
    \A i \in 1..(Len(routeFeature.coordinates) - 1) :
      ~isSameCoordinate(routeFeature.coordinates[i], routeFeature.coordinates[i + 1])

\* A published route of two segments that share an endpoint, one of them a
\* service geometry that repeats a vertex.
SharedEndpointRoutePublished ==
  /\ routeFeature # NoRoute
  /\ Len(routeFeature.segments) = 2
  /\ \E i \in DOMAIN routeFeature.segments :
       /\ routeFeature.segments[i].via \in {"service", "cache"}
       /\ routeFeature.segments[i].from[1] > routeFeature.segments[i].to[1]

RECURSIVE SumDistanceM(_), SumDurationS(_)
SumDistanceM(segments) ==
  IF segments = <<>> THEN 0 ELSE Head(segments).distance_m + SumDistanceM(Tail(segments))

SumDurationS(segments) ==
  IF segments = <<>> THEN 0 ELSE Head(segments).duration_s + SumDurationS(Tail(segments))

\* C6: the totals of a published route are the sums of the per-segment
\* distances and durations.
TotalsAreSegmentSums ==
  routeFeature # NoRoute =>
    /\ routeFeature.distance_m = SumDistanceM(routeFeature.segments)
    /\ routeFeature.duration_s = SumDurationS(routeFeature.segments)

\* A published route that mixes a fallen-back segment with a segment
\* resolved by the service or the cache.
MixedRoutePublished ==
  /\ routeFeature # NoRoute
  /\ \E i \in DOMAIN routeFeature.segments : routeFeature.segments[i].via = "fallback"
  /\ \E i \in DOMAIN routeFeature.segments :
       routeFeature.segments[i].via \in {"service", "cache"}

SegmentKey(segment) == createRouteSegmentCacheKey(segment.from, segment.to)

PendingKey(run) ==
  createRouteSegmentCacheKey(previousPointOf(run).coordinates,
                             currentPointOf(run).coordinates)

\* C7 as stated: a call never requests a pair, nor falls back on it, once
\* one of its earlier routed segments has resolved the same pair under the
\* same token; the later resolution comes from the cache.
SamePairRequestedOnce ==
  \A r \in LiveRuns :
    /\ runs[r].pc = "fetch" =>
         \A i \in DOMAIN runs[r].segments :
           ~(runs[r].segments[i].mode = "route"
             /\ SegmentKey(runs[r].segments[i]) = PendingKey(runs[r]))
    /\ \A i \in DOMAIN runs[r].segments : \A j \in DOMAIN runs[r].segments :
         (/\ i < j
          /\ runs[r].segments[i].mode = "route"
          /\ runs[r].segments[j].mode = "route"
          /\ SegmentKey(runs[r].segments[i]) = SegmentKey(runs[r].segments[j]))
         => runs[r].segments[j].via = "cache"

\* The call in slot r waits, after this step, for a Directions request it
\* sent in this step.
RequestIssued(r) ==
  /\ runs'[r].pc = "fetch"
  /\ ~runs'[r].aborted
  /\ IF runs[r].pc # "fetch" THEN TRUE
     ELSE \/ runs[r].index # runs'[r].index
          \/ runs[r].points # runs'[r].points
          \/ runs[r].token # runs'[r].token

CacheServedSegmentsMatch(segments) ==
  \A i \in DOMAIN segments :
    segments[i].via = "cache" =>
      /\ ~segments[i].failed
      /\ segments[i].mode = "route"
      /\ segments[i].distance_m = DirectionsRoute(segments[i].from, segments[i].to).distance
      /\ segments[i].duration_s = DirectionsRoute(segments[i].from, segments[i].to).duration

\* C7, amended: a pair is requested only while the cache holds no entry for
\* it, and a segment served from the cache is not failed and carries the
\* distance and duration the service answers for its pair.
CachedPairIsNotRequested ==
  [][/\ \A r \in 1..MaxRuns :
          RequestIssued(r) => PendingKey(runs'[r]) \notin DOMAIN routedSegmentCache'
     /\ CacheServedSegmentsMatch(SegmentsOf(routeFeature'))
     /\ \A r \in 1..MaxRuns :
          runs'[r].pc # "none" => CacheServedSegmentsMatch(runs'[r].segments)]_vars

\* A published route with a segment served from the cache.
CacheServedRoutePublished ==
  /\ routeFeature # NoRoute
  /\ \E i \in DOMAIN routeFeature.segments : routeFeature.segments[i].via = "cache"

\* C8: the cache never holds more than MAX_ROUTED_SEGMENT_CACHE_ENTRIES
\* entries; a step leaves it alone, adds or overwrites one entry and keeps
\* all the others, or removes every entry; a write into a full cache leaves
\* the written entry alone.
CacheClearedNeverEvicted ==
  [][LET old == DOMAIN routedSegmentCache
         new == DOMAIN routedSegmentCache'
     IN  /\ Cardinality(new) <= MAX_ROUTED_SEGMENT_CACHE_ENTRIES
         /\ \/ routedSegmentCache' = routedSegmentCache
            \/ new = {}
            \/ /\ old \subseteq new
               /\ Cardinality(new \ old) <= 1
               /\ Cardinality({key \in old :
                                 routedSegmentCache'[key] # routedSegmentCache[key]})
                    + Cardinality(new \ old) <= 1
            \/ /\ Cardinality(old) >= MAX_ROUTED_SEGMENT_CACHE_ENTRIES
               /\ Cardinality(new) = 1
         /\ (Cardinality(old) >= MAX_ROUTED_SEGMENT_CACHE_ENTRIES
               /\ routedSegmentCache' # routedSegmentCache)
              => Cardinality(new) <= 1]_vars

\* The cache holds a single entry although the published route shows two
\* other pairs fetched under the current token: the write into the full
\* cache dropped both.
CacheOverflowed ==
  /\ Cardinality(DOMAIN routedSegmentCache) = 1
  /\ routeFeature # NoRoute
  /\ \E i \in DOMAIN routeFeature.segments : \E j \in DOMAIN routeFeature.segments :
       /\ SegmentKey(routeFeature.segments[i]) # SegmentKey(routeFeature.segments[j])
       /\ \A k \in {i, j} :
            /\ routeFeature.segments[k].via = "service"
            /\ routeFeature.segments[k].credential = mapboxToken
            /\ SegmentKey(routeFeature.segments[k]) \notin DOMAIN routedSegmentCache
  /\ \A key \in DOMAIN routedSegmentCache : routedSegmentCache[key].token = mapboxToken

FailedOnlyWhenPolylineShort ==
  /\ ended.outcome = "Failed" => ended.short
  /\ ended.outcome = "Completed" => ~ended.short
  /\ statusText.kind = "Failed to generate route" =>
       /\ statusText.detail = <<CompositionError>>
       /\ routeFeature = NoRoute
       /\ ended.outcome = "Failed"

\* A call started by a handler ended Failed with a polyline of one point.
ShortPolylineFailed ==
  /\ statusText.kind = "Failed to generate route"
  /\ ended.outcome = "Failed"
  /\ ended.short
  /\ routeFeature = NoRoute
  /\ calls = 2

\* C11: a step that leaves the waypoint list with fewer than 2 points leaves
\* no published route, no controller in the ref and only cancelled calls
\* waiting, and starts no call; while the list stays that short no route is
\* published.
ShortListGoesIdle ==
  [][Len(routePoints') < 2 =>
       /\ routeFeature' = NoRoute
       /\ routeAbortControllerRef' = NoController
       /\ \A r \in 1..MaxRuns : runs'[r].pc # "none" => runs'[r].aborted
       /\ calls' = calls
       /\ ended' = ended]_vars

\* The list is short, a route had been published for an earlier list, and
\* the call that was in flight when the list became short still waits,
\* cancelled.
ShortListWithCancelledRun ==
  /\ Len(routePoints) < 2
  /\ routeFeature = NoRoute
  /\ ended.outcome = "Completed"
  /\ \E r \in LiveRuns : runs[r].aborted /\ runs[r].pc = "fetch"
  /\ calls = 2

\* C12: at most one call that has not returned has a signal that was not
\* aborted, and it is the call whose controller the ref holds.
AtMostOneUntriggeredToken ==
  /\ Cardinality({r \in LiveRuns : ~runs[r].aborted}) <= 1
  /\ \A r \in LiveRuns : ~runs[r].aborted => routeAbortControllerRef = r

\* Two calls wait for their Directions responses: the earlier one
\* cancelled, the later one not.
TwoRunsOneCancelled ==
  \E r1 \in LiveRuns : \E r2 \in LiveRuns :
    /\ r1 # r2
    /\ runs[r1].aborted /\ runs[r1].pc = "fetch"
    /\ ~runs[r2].aborted /\ runs[r2].pc = "fetch"

\* C13: the waypoint list is well formed after every mutation: a list of 2
\* or more points begins with the only start, ends with the only end and
\* has waypoints in between; a single point is a start or an end; the first
\* point carries no segment mode and every other point carries one.
RoutePointsWellFormed ==
  LET n == Len(routePoints)
  IN  /\ n >= 2 =>
           \A index \in 1..n :
             routePoints[index].type =
               IF index = 1 THEN "start" ELSE IF index = n THEN "end" ELSE "waypoint"
      /\ n = 1 => routePoints[1].type \in {"start", "end"}
      /\ \A index \in 1..n :
           IF index = 1 THEN routePoints[index].segmentMode = "undefined"
           ELSE routePoints[index].segmentMode \in SegmentModes

\* A list of three points whose first point is not the one it began with:
\* the start was deleted, moved away or had a point put before it.
StartRoleReassigned ==
  /\ Len(routePoints) = MaxPoints
  /\ routePoints[1].id # 1
  /\ calls = 2

\* The elevation lookup of an endpoint of the segment has failed in the call.
LookupFailed(run, segment) ==
  \/ run.terrainTileCache[TerrainTileOf(segment.from)] = "fail"
  \/ run.terrainTileCache[TerrainTileOf(segment.to)] = "fail"

StraightSegmentsSound(segments) ==
  \A i \in DOMAIN segments :
    segments[i].mode = "straight" =>
      /\ ~segments[i].failed
      /\ segments[i].error = ""
      /\ segments[i].distance_m = haversineDistanceMeters(segments[i].from, segments[i].to)
      /\ segments[i].duration_s \in {FlatDurationS(segments[i]), TerrainDurationS(segments[i])}

\* C14: a straight segment is never marked failed and never adds a warning;
\* it carries the haversine distance, and the flat estimate when the
\* elevation lookup of one of its endpoints failed in its call (the terrain
\* estimate when both succeeded); the call goes on to the next segment.
StraightSegmentNeverFails ==
  /\ StraightSegmentsSound(SegmentsOf(routeFeature))
  /\ (routeFeature # NoRoute /\ statusText.kind = "Route ready with warnings") =>
       \A k \in DOMAIN statusText.detail :
         routeFeature.segments[statusText.detail[k][1]].mode = "route"
  /\ \A r \in LiveRuns :
       /\ StraightSegmentsSound(runs[r].segments)
       /\ \A k \in DOMAIN runs[r].segmentErrors :
            runs[r].segments[runs[r].segmentErrors[k][1]].mode = "route"
       /\ \A i \in DOMAIN runs[r].segments :
            runs[r].segments[i].mode = "straight" =>
              runs[r].segments[i].duration_s =
                IF LookupFailed(runs[r], runs[r].segments[i])
                THEN FlatDurationS(runs[r].segments[i])
                ELSE TerrainDurationS(runs[r].segments[i])

\* A call that was not cancelled has resolved a climbing straight segment
\* with the flat estimate after a terrain tile request failed, and waits
\* for the Directions response of its next segment.
StraightSegmentAfterFailedLookup ==
  \E r \in LiveRuns :
    /\ ~runs[r].aborted
    /\ runs[r].token # ""
    /\ runs[r].pc = "fetch"
    /\ \E i \in DOMAIN runs[r].segments :
         /\ runs[r].segments[i].mode = "straight"
         /\ LookupFailed(runs[r], runs[r].segments[i])
         /\ runs[r].segments[i].duration_s = FlatDurationS(runs[r].segments[i])
         /\ FlatDurationS(runs[r].segments[i]) # TerrainDurationS(runs[r].segments[i])

\* The record in slot r is, after the step, the call it was before the step.
SameCall(r) ==
  /\ runs[r].pc # "none"
  /\ runs'[r].pc # "none"
  /\ runs'[r].points = runs[r].points
  /\ runs'[r].token = runs[r].token

EveryRunEnds ==
  <>[](LiveRuns = {} /\ routeAbortControllerRef = NoController)

\* Both calls of the budget have been started and have ended, the last one
\* by reporting for the current list.
BothRunsEnded ==
  /\ calls = MaxCalls
  /\ LiveRuns = {}
  /\ routeAbortControllerRef = NoController
  /\ ended.outcome \in {"Completed", "Failed"}
  /\ ended.current

\* The segment mode a waypoint declares for the segment that ends at it.
DeclaredMode(point) ==
  IF point.segmentMode = "undefined" THEN "straight" ELSE point.segmentMode

\* The feature is a route over the waypoint list: its start, end and
\* waypoints are the list's coordinates and its i-th segment joins points
\* i and i+1 in the mode point i+1 declares.
RouteIsOver(feature, points) ==
  /\ feature # NoRoute
  /\ feature.start = points[1].coordinates
  /\ feature.end = points[Len(points)].coordinates
  /\ feature.waypoints = [i \in 1..(Len(points) - 2) |-> points[i + 1].coordinates]
  /\ Len(feature.segments) = Len(points) - 1
  /\ \A i \in 1..(Len(points) - 1) :
       /\ feature.segments[i].from = points[i].coordinates
       /\ feature.segments[i].to = points[i + 1].coordinates
       /\ feature.segments[i].mode = DeclaredMode(points[i + 1])

\* What the last call reported is the outcome of the current list: its
\* route, or the failure of a list whose points all coincide.
ReportedForCurrentList ==
  /\ ended.current
  /\ ~ended.aborted
  /\ IF routeFeature # NoRoute
     THEN ended.outcome = "Completed" /\ RouteIsOver(routeFeature, routePoints)
     ELSE /\ ended.outcome = "Failed"
          /\ \A i \in 1..Len(routePoints) :
               isSameCoordinate(routePoints[i].coordinates, routePoints[1].coordinates)

\* C17: a step that changes the waypoint list into a list of 2 or more
\* points starts a call over the new list, which the ref holds unless it
\* has reported already; and when every network request settles, from some
\* point on what is published or reported is the outcome of the current
\* list.
ListChangeStartsRun ==
  /\ [][(routePoints' # routePoints /\ Len(routePoints') >= 2) =>
          /\ calls' = calls + 1
          /\ IF routeAbortControllerRef' # NoController
             THEN /\ runs'[routeAbortControllerRef'].points = routePoints'
                  /\ ~runs'[routeAbortControllerRef'].aborted
             ELSE ReportedForCurrentList']_vars
  /\ <>[](Len(routePoints) >= 2 => ReportedForCurrentList)

\* The list was changed while a call was in flight, and the route of the
\* changed list is published.
ChangedListRoutePublished ==
  /\ calls = 2
  /\ LiveRuns = {}
  /\ Len(routePoints) = MaxPoints
  /\ \E i \in 1..Len(routePoints) : routePoints[i].id # i
  /\ RouteIsOver(routeFeature, routePoints)
  /\ ended.current

\* The coordinates of the points a published route runs over.
FeaturePoints(feature) == <<feature.start>> \o feature.waypoints \o <<feature.end>>

\* C18: the segment summaries follow the waypoint order.  A published route
\* over n points has n-1 summaries, the i-th with index i, from point i to
\* point i+1; the summaries of a call that has not returned are the first
\* ones of its list, each in the mode its end point declares, a fallen-back
\* one routed and failed; and the published route of a call that reported
\* for the current list has the modes the current list declares.
SegmentsFollowWaypoints ==
  /\ routeFeature # NoRoute =>
       /\ Len(routeFeature.segments) = Len(FeaturePoints(routeFeature)) - 1
       /\ \A i \in DOMAIN routeFeature.segments :
            /\ routeFeature.segments[i].index = i
            /\ routeFeature.segments[i].from = FeaturePoints(routeFeature)[i]
            /\ routeFeature.segments[i].to = FeaturePoints(routeFeature)[i + 1]
            /\ routeFeature.segments[i].via = "fallback" =>
                 routeFeature.segments[i].mode = "route" /\ routeFeature.segments[i].failed
  /\ (routeFeature # NoRoute /\ routeAbortControllerRef = NoController
        /\ Len(routePoints) >= 2) => RouteIsOver(routeFeature, routePoints)
  /\ \A r \in LiveRuns :
       /\ Len(runs[r].segments) = runs[r].index - 1
       /\ \A i \in DOMAIN runs[r].segments :
            /\ runs[r].segments[i].index = i
            /\ runs[r].segments[i].from = runs[r].points[i].coordinates
            /\ runs[r].segments[i].to = runs[r].points[i + 1].coordinates
            /\ runs[r].segments[i].mode = DeclaredMode(runs[r].points[i + 1])
            /\ runs[r].segments[i].via = "fallback" => runs[r].segments[i].failed

\* A published route of two segments over the current list: a fallen-back
\* routed segment and a straight one.
FallbackAndStraightPublished ==
  /\ routeFeature # NoRoute
  /\ routeAbortControllerRef = NoController
  /\ Len(routePoints) = 3
  /\ mapboxToken # ""
  /\ \E i \in DOMAIN routeFeature.segments : \E j \in DOMAIN routeFeature.segments :
       /\ routeFeature.segments[i].via = "fallback"
       /\ routeFeature.segments[j].mode = "straight"
       /\ routeFeature.segments[i].from # routeFeature.segments[i].to

\* The warnings of a list of segment summaries: index and error of each
\* failed one, in segment order.
FailedSegmentWarnings(segments) ==
  LET failedOnes == SelectSeq(segments, LAMBDA segment : segment.failed)
  IN  [k \in 1..Len(failedOnes) |-> <<failedOnes[k].index, failedOnes[k].error>>]

\* C19: a route is announced with one warning per failed segment, in
\* segment order, naming the segment's index and error, and as plain
\* success exactly when none of its segments failed; a call that has not
\* returned has collected the warnings of its failed segments so far.
WarningsMatchFailedSegments ==
  /\ statusText.kind \in {"Route ready.", "Route ready with warnings"} =>
       /\ routeFeature # NoRoute
       /\ ended.outcome = "Completed"
       /\ statusText.detail = FailedSegmentWarnings(routeFeature.segments)
       /\ statusText.kind = "Route ready." <=>
            \A i \in DOMAIN routeFeature.segments : ~routeFeature.segments[i].failed
       /\ \A k \in DOMAIN statusText.detail : statusText.detail[k][2] # ""
  /\ \A r \in LiveRuns :
       runs[r].segmentErrors = FailedSegmentWarnings(runs[r].segments)

\* A route of two segments is announced with a single warning, for its
\* second segment.
SecondSegmentWarned ==
  /\ statusText.kind = "Route ready with warnings"
  /\ routeFeature # NoRoute
  /\ Len(routeFeature.segments) = 2
  /\ ~routeFeature.segments[1].failed
  /\ statusText.detail = <<<<2, routeFeature.segments[2].error>>>>
  /\ mapboxToken # ""

\* A save request was handed to the main process in this step.
SaveRequested == ~saveDialog.open /\ saveDialog'.open

\* C20: a save request is made only while a route is published, and its
\* payload is a FeatureCollection of one feature, the route published at
\* that moment; a save without a published route makes no request and
\* writes nothing; a cancelled dialog writes no file and reports the
\* cancellation, and a file that is written holds the payload of the
\* request.
SaveHandsPublishedRoute ==
  [][/\ SaveRequested =>
          /\ routeFeature # NoRoute
          /\ saveDialog'.payload.type = "FeatureCollection"
          /\ saveDialog'.payload.features = <<routeFeature>>
          /\ savedGeoJSON' = savedGeoJSON
     /\ (routeFeature = NoRoute /\ ~saveDialog.open) =>
          ~saveDialog'.open /\ savedGeoJSON' = savedGeoJSON
     /\ (saveDialog.open /\ ~saveDialog'.open) =>
          /\ statusText'.kind = "Save canceled." => ~savedGeoJSON'.written
          /\ savedGeoJSON'.written =>
               /\ statusText'.kind = "Saved GeoJSON to"
               /\ savedGeoJSON'.content = saveDialog.payload
     /\ savedGeoJSON' # savedGeoJSON => saveDialog.open]_vars

\* A save was cancelled: nothing was written, the cancellation is
\* reported and the route is still published.
SaveCanceled ==
  /\ statusText.kind = "Save canceled."
  /\ ~saveDialog.open
  /\ ~savedGeoJSON.written
  /\ routeFeature # NoRoute

\* C23: while the ref holds no controller (no call is in flight that may
\* still publish), the published route is absent or is a route over the
\* current waypoint list: same start, end and interior coordinates, and
\* segment i in the mode point i+1 declares.
IdleRouteIsOfCurrentList ==
  routeAbortControllerRef = NoController =>
    \/ routeFeature = NoRoute
    \/ Len(routePoints) >= 2 /\ RouteIsOver(routeFeature, routePoints)

\* Two calls have run, none is in flight, and the route of the second,
\* over a list of three points, is published.
IdleAfterSecondRoutePublished ==
  /\ LiveRuns = {}
  /\ routeAbortControllerRef = NoController
  /\ calls = 2
  /\ Len(routePoints) = 3
  /\ routeFeature # NoRoute
  /\ mapboxToken # ""

\* C24 as stated: a cancelled call never changes the shared cache.  A step
\* that takes the Directions response of a cancelled call leaves the cache
\* as it was.
CancelledRunLeavesCache ==
  [][\A r \in 1..MaxRuns :
       (/\ runs[r].pc = "fetch"
        /\ runs[r].aborted
        /\ runs'[r] # runs[r]
        /\ mapboxToken' = mapboxToken
        /\ routePoints' = routePoints)
       => routedSegmentCache' = routedSegmentCache]_vars

NoAdjacentDuplicates(points) ==
  \A i \in 1..(Len(points) - 1) :
    ~isSameCoordinate(points[i].coordinates, points[i + 1].coordinates)

\* C25 as stated: no operation on the waypoint list makes two adjacent
\* points share their coordinates.  A step from a list without such a pair
\* leads to a list without such a pair.
AdjacentPointsStayDistinct ==
  [][NoAdjacentDuplicates(routePoints) => NoAdjacentDuplicates(routePoints')]_vars

\* The list `after` is the list `before` with one point put in at the
\* 0-based position k: the points of `before` keep their ids, coordinates
\* and order, and every segment of `before` keeps its mode; the segment
\* that ends at the new point has the mode of the segment that was split
\* (0 < k < length) or of the adjacent segment (k = length), and the
\* segment that ends at the old start (k = 0) the mode of the old first
\* segment.
IsInsertionAt(before, after, k) ==
  LET n == Len(before)
      position(j) == IF j <= k THEN j ELSE j + 1
  IN  /\ Len(after) = n + 1
      /\ \A j \in 1..n : after[k + 1].id # before[j].id
      /\ \A j \in 1..n :
           /\ after[position(j)].id = before[j].id
           /\ after[position(j)].coordinates = before[j].coordinates
           /\ j >= 2 => after[position(j)].segmentMode = before[j].segmentMode
      /\ (n >= 2 /\ k >= 1 /\ k < n) =>
           /\ after[k + 1].segmentMode = before[k + 1].segmentMode
           /\ after[k + 2].segmentMode = before[k + 1].segmentMode
      /\ (n >= 2 /\ k = n) => after[n + 1].segmentMode = before[n].segmentMode
      /\ (n >= 2 /\ k = 0) => after[2].segmentMode = before[2].segmentMode

\* C26: a step that makes the waypoint list longer puts exactly one point
\* in at some position: the existing points keep their ids, coordinates
\* and order, no existing segment changes its mode, and the new segments
\* have the mode of the segment that was split or of the adjacent one.
InsertKeepsPointsAndModes ==
  [][Len(routePoints') > Len(routePoints) =>
       \E k \in 0..Len(routePoints) : IsInsertionAt(routePoints, routePoints', k)]_vars

\* A point was put into a routed segment: the new point (id 3) stands
\* between points 1 and 2, both segments are routed and the call for the
\* new list has started.
PointInsertedIntoRoutedSegment ==
  /\ Len(routePoints) = 3
  /\ routePoints[1].id = 1 /\ routePoints[2].id = 3 /\ routePoints[3].id = 2
  /\ routePoints[2].segmentMode = "route"
  /\ routePoints[3].segmentMode = "route"
  /\ calls = 2

\* C27: a step that leaves the waypoint list and the token as they are (a
\* handler whose normalized result equals the current list among them)
\* starts no call and cancels none: a call that was in flight and not
\* cancelled is still so, or has ended, and the ref still holds it until
\* it ends.
UnchangedListKeepsRun ==
  [][(routePoints' = routePoints /\ mapboxToken' = mapboxToken) =>
       /\ calls' = calls
       /\ \A r \in 1..MaxRuns :
            /\ runs[r].pc = "none" => runs'[r].pc = "none"
            /\ (runs[r].pc # "none" /\ runs'[r].pc # "none") =>
                 runs'[r].aborted = runs[r].aborted
       /\ routeAbortControllerRef' \in {routeAbortControllerRef, NoController}
       /\ (routeAbortControllerRef # NoController /\ routeAbortControllerRef' = NoController)
            => runs'[routeAbortControllerRef].pc = "none"]_vars

\* A handler ran while a call was waiting for the routing service and left
\* it in flight: the status is the handler's, the ref holds the call.  The
\* list is full, so the handler was not an insert.
HandlerLeftRunInFlight ==
  /\ statusText.kind = "handler"
  /\ Len(routePoints) = MaxPoints
  /\ routeAbortControllerRef # NoController
  /\ runs[routeAbortControllerRef].pc = "fetch"
  /\ ~runs[routeAbortControllerRef].aborted

\* C29: a step that empties the waypoint list (Clear, or the removal of the
\* last point) leaves no published route, no controller in the ref and
\* only cancelled calls waiting, and leaves the cache as it was; while the
\* list stays empty, a response that arrives for a call started before
\* publishes no route and leaves the status as it was.
ClearEndsEveryRun ==
  [][/\ (routePoints # <<>> /\ routePoints' = <<>>) =>
          /\ routeFeature' = NoRoute
          /\ routeAbortControllerRef' = NoController
          /\ \A r \in 1..MaxRuns : runs'[r].pc # "none" => runs'[r].aborted
          /\ routedSegmentCache' = routedSegmentCache
     /\ (routePoints = <<>> /\ routePoints' = <<>> /\ runs' # runs) =>
          /\ routeFeature' = NoRoute
          /\ statusText' = statusText
          /\ ended' = ended
          /\ routeAbortControllerRef' = NoController]_vars

\* The list was cleared while a call waited for the routing service, and
\* the response of that call has arrived since: no call is left, the cache
\* holds what the call fetched, and nothing is published.
ResponseArrivedAfterClear ==
  /\ routePoints = <<>>
  /\ calls = 1
  /\ LiveRuns = {}
  /\ routedSegmentCache # <<>>
  /\ ended.outcome = "None"
  /\ routeFeature = NoRoute
  /\ statusText.kind = "handler"

\* C21: for a distance d >= 0 and an elevation difference e, the duration
\* is 3600 * (d / 1000 / 5 + max(e, 0) / 600 + max(-e, 0) / 1000) seconds,
\* that is (72 d + 600 max(e, 0) + 360 max(-e, 0)) / 100; it is not
\* negative, not less than the flat estimate for d, and more for a climb of
\* h > 0 metres than for a descent of h metres.
DurationFollowsFormula ==
  (evaluation.fn = "duration" /\ evaluation.done) =>
    LET d == evaluation.distanceM
        e == evaluation.deltaElevationM
    IN  /\ 100 * evaluation.result = 72 * d + 600 * Max(e, 0) + 360 * Max(-e, 0)
        /\ evaluation.result >= 0
        /\ evaluation.result >= calculateStraightSegmentDurationSeconds(d, 0)
        /\ e > 0 => evaluation.result > calculateStraightSegmentDurationSeconds(d, -e)
        /\ e < 0 => evaluation.result < calculateStraightSegmentDurationSeconds(d, -e)

\* The duration of a climb of 600 m over 5 km was computed: two hours.
ClimbDurationEvaluated ==
  /\ evaluation.fn = "duration"
  /\ evaluation.done
  /\ evaluation.distanceM = 5000
  /\ evaluation.deltaElevationM = 600
  /\ evaluation.result = 7200

\* The R, G and B bytes of the pixel (x, y) of a raster, x and y within it.
PixelRGB(imageData, x, y) ==
  LET index == (y * imageData.width + x) * 4
  IN  <<imageData.data[index + 1], imageData.data[index + 2], imageData.data[index + 3]>>

\* C22: the decoded elevation of a pixel coordinate is -10000 + (R * 65536
\* + G * 256 + B) * 0.1 metres for the bytes of the pixel the coordinate
\* is clamped to; a raster of the same size with the same three bytes at
\* that pixel decodes to the same value, whatever its alpha bytes and its
\* other pixels are.
DecodeReadsClampedPixel ==
  (evaluation.fn = "decode" /\ evaluation.done) =>
    LET imageData == evaluation.imageData
        x == IF evaluation.pixelX < 0 THEN 0
             ELSE IF evaluation.pixelX > imageData.width - 1 THEN imageData.width - 1
             ELSE evaluation.pixelX
        y == IF evaluation.pixelY < 0 THEN 0
             ELSE IF evaluation.pixelY > imageData.height - 1 THEN imageData.height - 1
             ELSE evaluation.pixelY
        rgb == PixelRGB(imageData, x, y)
    IN  /\ evaluation.result = -100000 + (rgb[1] * 65536 + rgb[2] * 256 + rgb[3])
        /\ \A other \in ImageDatas :
             (/\ other.width = imageData.width
              /\ other.height = imageData.height
              /\ PixelRGB(other, x, y) = rgb)
             => decodeTerrainElevationMeters(other, evaluation.pixelX, evaluation.pixelY)
                  = evaluation.result

\* A pixel coordinate right of and below a 2 x 1 raster was decoded from
\* the raster's second pixel, whose bytes differ from the first pixel's.
OutsidePixelDecoded ==
  /\ evaluation.fn = "decode"
  /\ evaluation.done
  /\ evaluation.imageData.width = 2
  /\ evaluation.pixelX = 2
  /\ evaluation.pixelY = 1
  /\ PixelRGB(evaluation.imageData, 0, 0) = <<1, 1, 1>>
  /\ PixelRGB(evaluation.imageData, 1, 0) = <<255, 1, 255>>
  /\ evaluation.result = -100000 + 255 * 65536 + 256 + 255

\* C30 as stated: for a coordinate the coordinate input accepts, the
\* projection at zoom 14 gives tile indexes within 0 .. 2^14 - 1 and pixel
\* offsets within 0 .. 511.
ProjectionAddressesExistingTile ==
  (/\ evaluation.fn = "project"
   /\ evaluation.done
   /\ parseCoordinateInputAccepts(evaluation.lng, evaluation.lat)) =>
    /\ evaluation.result.tileX \in 0..(2^14 - 1)
    /\ evaluation.result.tileY \in 0..(2^14 - 1)
    /\ evaluation.result.pixelX \in 0..511
    /\ evaluation.result.pixelY \in 0..511

\* What is displayed and what is still looked up belongs to the published
\* route: elevations and error are of the route that is published, and a
\* lookup that was not cancelled is the one started for it.
ElevationsOfPublishedRoute ==
  /\ routeElevations # NoElevations =>
       /\ routeFeature # NoRoute
       /\ routeElevations.of = routeFeature
       /\ routeElevations.startM = TerrainElevationMeters(routeFeature.start)
       /\ routeElevations.endM = TerrainElevationMeters(routeFeature.end)
  /\ routeElevationError # NoElevationError =>
       /\ routeFeature # NoRoute
       /\ routeElevationError.of = routeFeature
  /\ \A lookup \in elevationLookups :
       ~lookup.aborted => routeFeature # NoRoute /\ lookup.of = routeFeature

\* C28: the displayed elevations and the displayed error are those of the
\* published route; a step that publishes another route or clears the
\* route resets both to unknown and leaves only cancelled lookups for
\* earlier routes.
ElevationsFollowRoute ==
  /\ []ElevationsOfPublishedRoute
  /\ [][routeFeature' # routeFeature =>
          /\ routeElevations' = NoElevations
          /\ routeElevationError' = NoElevationError
          /\ \A lookup \in elevationLookups' :
               lookup.of # routeFeature' => lookup.aborted]_vars

\* The elevations of the published route are displayed while a lookup
\* started for an earlier route, cancelled, still decodes its tile.
ElevationsShownWhileStaleLookupDecodes ==
  /\ routeElevations # NoElevations
  /\ \E lookup \in elevationLookups :
       /\ lookup.aborted
       /\ lookup.of # routeFeature
       /\ lookup.of.start # routeFeature.start

====
